---------------------------- MODULE Spec2Model ----------------------------
(***************************************************************************)
(* Model of the TonClient connection pool (client.rs): construction of the *)
(* pool (TonClient::new, patch_init_block), lazy per-slot establishment    *)
(* (PoolConnection::get_connection) and the retrying call dispatch         *)
(* (retrying_invoke / do_invoke / retry_condition).                        *)
(*                                                                         *)
(* Two specifications share the variables:                                 *)
(*   SpecNew - one run of TonClient::new from its arguments;               *)
(*   Spec    - concurrent callers on a pool that TonClient::new returned.  *)
(***************************************************************************)
EXTENDS Integers, Sequences, FiniteSets, TLC

---------------------------------------------------------------------------
(* Bounds of the model *)

\* pool_size ranges over 0..MaxPoolNew in SpecNew (two-digit slot names occur)
MaxPoolNew == 11
\* sequence numbers of checkpoints range over 0..MaxSeqno
MaxSeqno == 3
\* pool_size ranges over 0..MaxPool in Spec
MaxPool == 2
\* retry_strategy.max_retries ranges over 0..MaxRetries in Spec
MaxRetries == 1
\* the callers sharing the TonClient: two tasks, enough to contend for a
\* slot; each makes one call, so a sequence of calls is a sequence of callers
Callers == {1, 2}

None == [tag |-> "None"]
NotAsked == [tag |-> "NotAsked"]
Some(v) == [tag |-> "Some", v |-> v]
Ok(v) == [tag |-> "Ok", v |-> v]
Err(e) == [tag |-> "Err", e |-> e]

---------------------------------------------------------------------------
(* Errors: TonClientError values *)

\* TonClientError::InternalError(msg)
InternalError(msg) == [variant |-> "InternalError", msg |-> msg]
\* TonClientError::TonlibError { code, .. }; id tells the values apart
TonlibError(code, id) == [variant |-> "TonlibError", code |-> code, id |-> id]
\* the conversion of std::io::Error by the ? of fs::create_dir_all
IoError(kind) == [variant |-> "Io", kind |-> kind]

MsgParse == "Fail to parse config"
MsgInitBlock == "Failed to update init_block"
MsgBlockId == "Fail to serialize block_id"
MsgSerialize == "Fail to serialize config"

---------------------------------------------------------------------------
(* Paths and the file system (std::path, std::fs) *)

Digits == <<"0", "1", "2", "3", "4", "5", "6", "7", "8", "9">>

\* format!("{}", i): the decimal digits of i, most significant first
RECURSIVE Format(_)
Format(i) == IF i < 10 THEN <<Digits[i + 1]>>
             ELSE Format(i \div 10) \o <<Digits[(i % 10) + 1]>>

\* Path::join of a relative name: the separator is added unless the base is
\* empty or already ends with one
PathJoin(base, name) ==
    IF name # <<>> /\ Head(name) = "/" THEN name
    ELSE IF base = <<>> \/ base[Len(base)] = "/" THEN base \o name
    ELSE base \o <<"/">> \o name

\* Path::parent: the path without its last component (<<>> when there is none)
RECURSIVE StripTo(_)
StripTo(p) == IF p = <<>> THEN <<>>
              ELSE IF p[Len(p)] = "/" THEN SubSeq(p, 1, Len(p) - 1)
              ELSE StripTo(SubSeq(p, 1, Len(p) - 1))
RECURSIVE TrimSep(_)
TrimSep(p) == IF p # <<>> /\ p[Len(p)] = "/" THEN TrimSep(SubSeq(p, 1, Len(p) - 1))
              ELSE p
Parent(p) == StripTo(TrimSep(p))

EmptyDir == [kind |-> "dir", content |-> "empty"]
KeysDir == [kind |-> "dir", content |-> "keys"]
File == [kind |-> "file", content |-> "data"]

Mkdir(f, p) == [q \in DOMAIN f \cup {p} |-> IF q \in DOMAIN f THEN f[q] ELSE EmptyDir]

\* fs::create_dir_all: an existing directory is reused, missing ancestors are
\* created first, a non-directory in the way is an error
RECURSIVE create_dir_all(_, _)
create_dir_all(f, p) ==
    LET q == TrimSep(p) IN
    IF q = <<>> THEN Ok(f)
    ELSE IF q \in DOMAIN f
         THEN IF f[q].kind = "dir" THEN Ok(f) ELSE Err(IoError("AlreadyExists"))
    ELSE LET up == create_dir_all(f, Parent(q)) IN
         IF up.tag = "Err" THEN up ELSE Ok(Mkdir(up.v, q))

---------------------------------------------------------------------------
(* Configuration document and checkpoint (TonConfig, recent_init_block) *)

Seqnos == 0..MaxSeqno
\* a checkpoint: sequence number and block identifier
Block(seqno, id) == [seqno |-> seqno, id |-> id]
EmbeddedBlocks == {Block(s, "embedded") : s \in Seqnos}
RecentBlocks == {Block(s, "fetched") : s \in Seqnos}

\* a configuration document is JSON text: what it says and how it is laid
\* out; Malformed does not parse
Malformed == [json |-> "malformed"]
Document(cfg, layout) == [json |-> "config", body |-> cfg, layout |-> layout]
TonConfigOf(block) == [liteservers |-> "bootstrap", init_block |-> block]

\* TonConfig::from_json
from_json(doc) == IF doc.json = "config" THEN Ok(doc.body) ELSE Err("syntax")
\* TonConfig::to_json
to_json(cfg, ser_ok) == IF ser_ok THEN Ok(Document(cfg, "serde")) ELSE Err("serialize")
\* TonConfig::get_init_block_seqno
get_init_block_seqno(cfg) == cfg.init_block.seqno
\* TonConfig::set_init_block
set_init_block(cfg, block, set_ok) ==
    IF set_ok THEN Ok([cfg EXCEPT !.init_block = block]) ELSE Err("block_id")

\* mutant: the fetched checkpoint is written whatever its sequence number
UpdateInitBlockAlways(ton_config, recent_init_block, set_ok) ==
    set_init_block(ton_config, recent_init_block, set_ok)

\* client.rs 203-216: the checkpoint is rewritten only when the fetched one is
\* strictly newer
UpdateInitBlock(ton_config, recent_init_block, set_ok) ==
    LET old_seqno == get_init_block_seqno(ton_config) IN
    IF old_seqno < recent_init_block.seqno
    THEN set_init_block(ton_config, recent_init_block, set_ok)
    ELSE Ok(ton_config)

\* mutant: with no checkpoint fetched the embedded one is kept and
\* construction goes on
PatchKeepsEmbedded(params, recent, set_ok, ser_ok) ==
    LET parsed == from_json(params.config) IN
    IF parsed.tag = "Err" THEN Err(InternalError(MsgParse))
    ELSE IF recent.tag = "None" THEN Ok(params)
    ELSE LET updated == UpdateInitBlock(parsed.v, recent.v, set_ok) IN
         IF updated.tag = "Err" THEN Err(InternalError(MsgBlockId))
         ELSE LET json == to_json(updated.v, ser_ok) IN
              IF json.tag = "Err" THEN Err(InternalError(MsgSerialize))
              ELSE Ok([params EXCEPT !.config = json.v])

\* patch_init_block(params); recent is what get_recent_init_block answers,
\* set_ok / ser_ok whether set_init_block / to_json succeed
patch_init_block(params, recent, set_ok, ser_ok) ==
    LET parsed == from_json(params.config) IN
    IF parsed.tag = "Err" THEN Err(InternalError(MsgParse))
    ELSE IF recent.tag = "None" THEN Err(InternalError(MsgInitBlock))
    ELSE LET updated == UpdateInitBlock(parsed.v, recent.v, set_ok) IN
         IF updated.tag = "Err" THEN Err(InternalError(MsgBlockId))
         ELSE LET json == to_json(updated.v, ser_ok) IN
              IF json.tag = "Err" THEN Err(InternalError(MsgSerialize))
              ELSE Ok([params EXCEPT !.config = json.v])

---------------------------------------------------------------------------
(* State *)

VARIABLES
    \* arguments of TonClient::new
    pool_size, params, retry_strategy, connection_check,
    \* TonClient::new: position, locals and result
    new_pc, patched_params, connections, new_result,
    \* the file system now and the file system before the call
    fs, fs0,
    \* number of patch_init_block runs and what get_recent_init_block
    \* answered (NotAsked until it is called)
    patch_runs, recent_init_block,
    \* the TonClient returned to the callers (None until construction succeeds)
    client,
    \* per slot (0-based index): the content of the Mutex conn, and the tasks
    \* in its lock, first come first served, the head holding the guard
    conn, lock,
    \* per slot: whether the thread behind the stored JoinHandle has ended
    finished,
    \* per slot: number of calls of the connection factory that succeeded
    connect_ok,
    \* per caller: position, operation, selected slot, do_invoke runs of the
    \* call, items left in the retry strategy, the connection obtained, what
    \* the last do_invoke returned, what the call returned, and whether its
    \* last PoolConnection::get_connection wrote a log::warn! record
    pc, op, item, attempts, retries_left, held, res, result, warned

newVars == <<pool_size, params, retry_strategy, connection_check, new_pc,
             patched_params, connections, new_result, fs, fs0,
             patch_runs, recent_init_block, client>>

slotVars == <<conn, lock>>
histVars == <<finished, connect_ok>>
callVars == <<pc, op, item, attempts, retries_left, held, res, result, warned>>
vars == <<newVars, slotVars, histVars, callVars>>

ConnectionChecks == {"None", "Health", "Archive"}

\* keystore roots: none, a directory name, the same with a trailing separator
Root == <<"k", "s">>
KeystoreDirs == {None, Some(Root), Some(Root \o <<"/">>)}

Documents == {Malformed} \cup {Document(TonConfigOf(b), layout) :
                                b \in EmbeddedBlocks, layout \in {"serde", "by hand"}}

\* file systems before the call: nothing; slot directories with key material
\* under the root (one of them beyond any pool); a file where slot 1 goes
FileSystems ==
    LET f0 == [p \in {} |-> EmptyDir]
        f1 == [p \in {Root} |-> EmptyDir]
        f2 == [p \in {Root, PathJoin(Root, Format(0)), PathJoin(Root, Format(MaxPoolNew + 1))}
                 |-> IF p = Root THEN EmptyDir ELSE KeysDir]
        f3 == [p \in {Root, PathJoin(Root, Format(1))}
                 |-> IF p = Root THEN EmptyDir ELSE File]
    IN {f0, f1, f2, f3}

\* PoolConnection { params, callback, conn: Mutex::new(None), connection_check }
\* as TonClient::new builds it for slot i (client.rs 73-88)
\* mutant: only the last digit of the slot index names the directory
KeystorePathLastDigit(dir, i) == PathJoin(dir, Format(i % 10))

\* client.rs 75-76: keystore_prefix.join(format!("{}", i))
KeystorePath(dir, i) == PathJoin(dir, Format(i))

\* client.rs 74-82: the keystore_dir of slot i's parameters
SlotKeystore(patched, i) ==
    IF patched.keystore_dir.tag = "Some"
    THEN Some(KeystorePath(patched.keystore_dir.v, i))
    ELSE None

PoolConnection(patched, i, check) ==
    [params |-> [patched EXCEPT !.keystore_dir = SlotKeystore(patched, i)],
     callback |-> "callback",
     connection_check |-> check]

\* Inner { retry_strategy, connections }
Inner(strategy, conns) == [retry_strategy |-> strategy, connections |-> conns]

InitNewArgs ==
    /\ pool_size \in 0..MaxPoolNew
    /\ params \in [config : Documents, keystore_dir : KeystoreDirs,
                   update_init_block : BOOLEAN]
    /\ retry_strategy = [interval_ms |-> 100, max_retries |-> MaxRetries]
    /\ connection_check \in ConnectionChecks
    /\ fs0 \in FileSystems

NewEntered ==
    /\ new_pc = "start"
    /\ patched_params = None
    /\ connections = <<>>
    /\ new_result = None
    /\ fs = fs0
    /\ patch_runs = 0
    /\ recent_init_block = NotAsked
    /\ client = None

\* no caller has started and no slot state is recorded
CallersIdle ==
    /\ pc = [c \in Callers |-> "idle"]
    /\ op = [c \in Callers |-> "none"]
    /\ item = [c \in Callers |-> 0]
    /\ attempts = [c \in Callers |-> 0]
    /\ retries_left = [c \in Callers |-> 0]
    /\ held = [c \in Callers |-> None]
    /\ res = [c \in Callers |-> None]
    /\ result = [c \in Callers |-> None]
    /\ warned = [c \in Callers |-> FALSE]

InitNew ==
    /\ InitNewArgs
    /\ NewEntered
    /\ conn = <<>> /\ lock = <<>>
    /\ finished = <<>> /\ connect_ok = <<>>
    /\ CallersIdle

---------------------------------------------------------------------------
(* TonClient::new *)

\* mutant: a failed patch_init_block is repeated as the RetryStrategy allows
NewPatchInitBlockRetried ==
    /\ new_pc = "start"
    /\ params.update_init_block
    /\ \E recent \in {None} \cup {Some(b) : b \in RecentBlocks}, set_ok \in BOOLEAN,
          ser_ok \in BOOLEAN :
          LET r == patch_init_block(params, recent, set_ok, ser_ok) IN
          /\ patch_runs' = patch_runs + 1
          /\ recent_init_block' = IF from_json(params.config).tag = "Ok"
                                  THEN recent ELSE recent_init_block
          /\ IF r.tag = "Ok"
             THEN /\ patched_params' = Some(r.v)
                  /\ new_pc' = "slots"
                  /\ new_result' = new_result
             ELSE /\ patched_params' = patched_params
                  /\ new_pc' = IF patch_runs < retry_strategy.max_retries
                               THEN "start" ELSE "err"
                  /\ new_result' = IF patch_runs < retry_strategy.max_retries
                                   THEN new_result ELSE r
    /\ UNCHANGED <<pool_size, params, retry_strategy, connection_check,
                   connections, fs, fs0, client>>
    /\ UNCHANGED <<slotVars, histVars, callVars>>

\* client.rs 66-67: refresh requested, patch_init_block runs (its ? returns
\* the error)
NewPatchInitBlock ==
    /\ new_pc = "start"
    /\ params.update_init_block
    /\ \E recent \in {None} \cup {Some(b) : b \in RecentBlocks}, set_ok \in BOOLEAN,
          ser_ok \in BOOLEAN :
          LET r == patch_init_block(params, recent, set_ok, ser_ok) IN
          /\ patch_runs' = patch_runs + 1
          /\ recent_init_block' = IF from_json(params.config).tag = "Ok"
                                  THEN recent ELSE recent_init_block
          /\ IF r.tag = "Ok"
             THEN /\ patched_params' = Some(r.v)
                  /\ new_pc' = "slots"
                  /\ new_result' = new_result
             ELSE /\ patched_params' = patched_params
                  /\ new_pc' = "err"
                  /\ new_result' = r
    /\ UNCHANGED <<pool_size, params, retry_strategy, connection_check,
                   connections, fs, fs0, client>>
    /\ UNCHANGED <<slotVars, histVars, callVars>>

\* client.rs 68-70: no refresh, the parameters are cloned
NewCloneParams ==
    /\ new_pc = "start"
    /\ ~params.update_init_block
    /\ patched_params' = Some(params)
    /\ new_pc' = "slots"
    /\ UNCHANGED <<pool_size, params, retry_strategy, connection_check,
                   connections, new_result, fs, fs0, patch_runs,
                   recent_init_block, client>>
    /\ UNCHANGED <<slotVars, histVars, callVars>>

\* client.rs 74-82: the keystore directory of slot i; denied is the file
\* system refusing the creation
SlotDirectory(patched, i, f, denied) ==
    IF patched.keystore_dir.tag = "Some"
    THEN IF denied THEN Err(IoError("PermissionDenied"))
         ELSE create_dir_all(f, KeystorePath(patched.keystore_dir.v, i))
    ELSE Ok(f)

Extend(fn, i, v) == [j \in 0..i |-> IF j < i THEN fn[j] ELSE v]

\* client.rs 72-90: one turn of the loop that succeeds
NewPushSlot ==
    /\ new_pc = "slots"
    /\ Len(connections) < pool_size
    /\ LET i == Len(connections) IN
       \E denied \in BOOLEAN :
          LET d == SlotDirectory(patched_params.v, i, fs, denied) IN
          /\ d.tag = "Ok"
          /\ fs' = d.v
          /\ connections' = Append(connections,
                                  PoolConnection(patched_params.v, i, connection_check))
          /\ conn' = Extend(conn, i, None)
          /\ lock' = Extend(lock, i, <<>>)
    /\ UNCHANGED <<pool_size, params, retry_strategy, connection_check, new_pc,
                   patched_params, new_result, fs0, patch_runs,
                   recent_init_block, client>>
    /\ UNCHANGED <<histVars, callVars>>

\* mutant: when fs::create_dir_all fails the slots built so far are returned
NewCreateDirFailsReturnsPartial ==
    /\ new_pc = "slots"
    /\ Len(connections) < pool_size
    /\ LET i == Len(connections) IN
       \E denied \in BOOLEAN :
          SlotDirectory(patched_params.v, i, fs, denied).tag = "Err"
    /\ new_pc' = "ok"
    /\ client' = Some(Inner(retry_strategy, connections))
    /\ new_result' = Ok("TonClient")
    /\ UNCHANGED <<pool_size, params, retry_strategy, connection_check,
                   patched_params, connections, fs, fs0, patch_runs,
                   recent_init_block>>
    /\ UNCHANGED <<slotVars, histVars, callVars>>

\* client.rs 77: fs::create_dir_all fails, the ? returns the error and the
\* slots built so far are dropped
NewCreateDirFails ==
    /\ new_pc = "slots"
    /\ Len(connections) < pool_size
    /\ LET i == Len(connections) IN
       \E denied \in BOOLEAN :
          LET d == SlotDirectory(patched_params.v, i, fs, denied) IN
          /\ d.tag = "Err"
          /\ new_result' = d
    /\ new_pc' = "err"
    /\ connections' = <<>>
    /\ conn' = <<>>
    /\ lock' = <<>>
    /\ UNCHANGED <<pool_size, params, retry_strategy, connection_check,
                   patched_params, fs, fs0, patch_runs,
                   recent_init_block, client>>
    /\ UNCHANGED <<histVars, callVars>>

\* client.rs 91-97: the pool is returned
NewReturn ==
    /\ new_pc = "slots"
    /\ Len(connections) = pool_size
    /\ new_pc' = "ok"
    /\ client' = Some(Inner(retry_strategy, connections))
    /\ new_result' = Ok("TonClient")
    /\ UNCHANGED <<pool_size, params, retry_strategy, connection_check,
                   patched_params, connections, fs, fs0, patch_runs,
                   recent_init_block>>
    /\ UNCHANGED <<slotVars, histVars, callVars>>

NextNew ==
    \/ NewPatchInitBlock
    \/ NewCloneParams
    \/ NewPushSlot
    \/ NewCreateDirFails
    \/ NewReturn

SpecNew == InitNew /\ [][NextNew]_vars

---------------------------------------------------------------------------
(* The pool in use *)

\* the slots of the pool: indices of inner.connections
Slots == IF client.tag = "Some" THEN 0..(Len(client.v.connections) - 1) ELSE {}

\* a connection handle and the JoinHandle of its thread: the n-th session
\* opened for slot s
Handle(s, n) == [slot |-> s, session |-> n]
Established(s, n) == Some([conn |-> Handle(s, n), join_handle |-> Handle(s, n)])

\* the factory function PoolConnection::get_connection calls (client.rs 246-256)
Factory(check) ==
    CASE check = "None" -> "connect_joinable"
      [] check = "Health" -> "connect_healthy"
      [] check = "Archive" -> "connect_archive"

Factories == {Factory(check) : check \in ConnectionChecks}

\* the failures the factory or a dispatched call may return to attempt n
Failures(n) == {TonlibError(500, n), TonlibError(400, n), InternalError("remote")}

\* client.rs 171-177
maybe_error_code(error) ==
    IF error.variant = "TonlibError" THEN Some(error.code) ELSE None

\* mutant: every failure is retried
RetryAnyError(error) == TRUE

\* client.rs 179-185
retry_condition(error) ==
    LET code == maybe_error_code(error) IN
    IF code.tag = "Some" THEN code.v = 500 ELSE FALSE

\* mutant: the strategy yields one wait too many
StrategyItemsOneMore(strategy) == strategy.max_retries + 1

\* client.rs 113-114: FixedInterval::from_millis(interval_ms).take(max_retries),
\* the number of waits the strategy yields
StrategyItems(strategy) == strategy.max_retries

\* mutant: the stored connection is never reused
NeedsConnectAlways(guard) == TRUE

\* mutant: a connection whose JoinHandle is finished is established again
NeedsConnectOrDead(guard) ==
    IF guard.tag = "None" THEN TRUE ELSE finished[guard.v.join_handle.slot]

\* client.rs 236: what PoolConnection::get_connection finds in the guard
NeedsConnect(guard) == guard.tag = "None"

\* the state a pool is in when TonClient::new returned it: no refresh, no
\* keystore, n slots, every Mutex holding None
Init ==
    /\ pool_size \in 0..MaxPool
    /\ connection_check \in ConnectionChecks
    /\ retry_strategy \in [interval_ms : {100}, max_retries : 0..MaxRetries]
    /\ params = [config |-> Document(TonConfigOf(Block(0, "embedded")), "by hand"),
                 keystore_dir |-> None, update_init_block |-> FALSE]
    /\ patched_params = Some(params)
    /\ connections = [k \in 1..pool_size |->
                         PoolConnection(params, k - 1, connection_check)]
    /\ client = Some(Inner(retry_strategy, connections))
    /\ new_pc = "ok"
    /\ new_result = Ok("TonClient")
    /\ fs0 = <<>> /\ fs = fs0
    /\ patch_runs = 0
    /\ recent_init_block = NotAsked
    /\ conn = [s \in 0..(pool_size - 1) |-> None]
    /\ lock = [s \in 0..(pool_size - 1) |-> <<>>]
    /\ finished = [s \in 0..(pool_size - 1) |-> FALSE]
    /\ connect_ok = [s \in 0..(pool_size - 1) |-> 0]
    /\ CallersIdle

\* mutant: the caller enters the lock of every slot of the pool
SelectAndLockAll(c) ==
    IF Slots = {}
    THEN /\ pc' = [pc EXCEPT ![c] = "panicked"]
         /\ UNCHANGED <<item, lock>>
    ELSE \E i \in Slots :
            /\ item' = [item EXCEPT ![c] = i]
            /\ lock' = [s \in DOMAIN lock |-> Append(lock[s], c)]
            /\ pc' = [pc EXCEPT ![c] = "lock"]

\* client.rs 133-140 and 235: random_item picks a slot (gen_range panics on
\* an empty range) and the caller enters the lock of its Mutex
SelectAndLock(c) ==
    IF Slots = {}
    THEN /\ pc' = [pc EXCEPT ![c] = "panicked"]
         /\ UNCHANGED <<item, lock>>
    ELSE \E i \in Slots :
            /\ item' = [item EXCEPT ![c] = i]
            /\ lock' = [lock EXCEPT ![i] = Append(lock[i], c)]
            /\ pc' = [pc EXCEPT ![c] = "lock"]

\* callers are numbered in the order in which they start
CanStart(c) ==
    /\ client.tag = "Some"
    /\ pc[c] = "idle"
    /\ \A d \in Callers : d < c => pc[d] # "idle"

\* client.rs 149-153: TonClient::get_connection is called
StartGetConnection(c) ==
    /\ CanStart(c)
    /\ op' = [op EXCEPT ![c] = "get_connection"]
    /\ attempts' = [attempts EXCEPT ![c] = 1]
    /\ retries_left' = [retries_left EXCEPT ![c] = 0]
    /\ SelectAndLock(c)
    /\ UNCHANGED <<newVars, conn, histVars, held, res, result, warned>>

\* client.rs 155-160, 109-123: invoke_on_connection is called, the strategy
\* is built and the first do_invoke starts
StartInvoke(c) ==
    /\ CanStart(c)
    /\ op' = [op EXCEPT ![c] = "invoke_on_connection"]
    /\ attempts' = [attempts EXCEPT ![c] = 1]
    /\ retries_left' = [retries_left EXCEPT ![c] = StrategyItems(client.v.retry_strategy)]
    /\ SelectAndLock(c)
    /\ UNCHANGED <<newVars, conn, histVars, held, res, result, warned>>

\* mutant: an error of TonClient::get_connection is handed to the retry loop
ObtainedGetRetried(c, r) ==
    IF r.tag = "Err"
    THEN /\ pc' = [pc EXCEPT ![c] = "attempt_done"]
         /\ res' = [res EXCEPT ![c] = r]
         /\ UNCHANGED <<held, result>>
    ELSE IF op[c] = "get_connection"
    THEN /\ pc' = [pc EXCEPT ![c] = "done"]
         /\ result' = [result EXCEPT ![c] = r]
         /\ UNCHANGED <<held, res>>
    ELSE /\ pc' = [pc EXCEPT ![c] = "invoking"]
         /\ held' = [held EXCEPT ![c] = Some(r.v)]
         /\ UNCHANGED <<res, result>>

\* mutant: an error of PoolConnection::get_connection leaves the retry loop
ObtainedErrReturns(c, r) ==
    IF op[c] = "get_connection" \/ r.tag = "Err"
    THEN /\ pc' = [pc EXCEPT ![c] = "done"]
         /\ result' = [result EXCEPT ![c] = r]
         /\ UNCHANGED <<held, res>>
    ELSE /\ pc' = [pc EXCEPT ![c] = "invoking"]
         /\ held' = [held EXCEPT ![c] = Some(r.v)]
         /\ UNCHANGED <<res, result>>

\* what the caller does with the value PoolConnection::get_connection
\* returned: TonClient::get_connection returns it (client.rs 151-152),
\* do_invoke dispatches on Ok and returns Err (client.rs 124-125)
Obtained(c, r) ==
    IF op[c] = "get_connection"
    THEN /\ pc' = [pc EXCEPT ![c] = "done"]
         /\ result' = [result EXCEPT ![c] = r]
         /\ UNCHANGED <<held, res>>
    ELSE IF r.tag = "Ok"
    THEN /\ pc' = [pc EXCEPT ![c] = "invoking"]
         /\ held' = [held EXCEPT ![c] = Some(r.v)]
         /\ UNCHANGED <<res, result>>
    ELSE /\ pc' = [pc EXCEPT ![c] = "attempt_done"]
         /\ res' = [res EXCEPT ![c] = r]
         /\ UNCHANGED <<held, result>>

\* mutant: lock() returns to every caller in the queue, not to the first
HoldsGuardAnyone(c) == \E k \in 1..Len(lock[item[c]]) : lock[item[c]][k] = c

\* client.rs 235: lock().await returned to c, which holds the MutexGuard
HoldsGuard(c) == lock[item[c]] # <<>> /\ Head(lock[item[c]]) = c

\* mutant: the MutexGuard outlives PoolConnection::get_connection
ReleaseKept(c) == lock' = lock

\* client.rs 243, 258, 260: PoolConnection::get_connection returns and its
\* MutexGuard is dropped; the next caller in the queue gets the guard
Release(c) == lock' = [lock EXCEPT ![item[c]] = Tail(lock[item[c]])]

\* mutant: a connection whose JoinHandle is finished is an error
GetConnectionReadyFailsOnDead(c) ==
    /\ pc[c] = "lock"
    /\ HoldsGuard(c)
    /\ ~NeedsConnect(conn[item[c]])
    /\ warned' = [warned EXCEPT ![c] = finished[item[c]]]
    /\ IF finished[item[c]]
       THEN Obtained(c, Err(InternalError("dead connection")))
       ELSE Obtained(c, Ok(conn[item[c]].v.conn))
    /\ Release(c)
    /\ UNCHANGED <<newVars, conn, finished, connect_ok,
                   op, item, attempts, retries_left>>

\* mutant: a connection whose JoinHandle is finished is returned and taken
\* out of the slot
GetConnectionReadyClearsDead(c) ==
    /\ pc[c] = "lock"
    /\ HoldsGuard(c)
    /\ ~NeedsConnect(conn[item[c]])
    /\ warned' = [warned EXCEPT ![c] = finished[item[c]]]
    /\ conn' = IF finished[item[c]] THEN [conn EXCEPT ![item[c]] = None] ELSE conn
    /\ Obtained(c, Ok(conn[item[c]].v.conn))
    /\ Release(c)
    /\ UNCHANGED <<newVars, finished, connect_ok,
                   op, item, attempts, retries_left>>

\* client.rs 235-244: the guard is acquired and holds a connection; a finished
\* JoinHandle is logged, the stored handle is cloned and returned
GetConnectionReady(c) ==
    /\ pc[c] = "lock"
    /\ HoldsGuard(c)
    /\ ~NeedsConnect(conn[item[c]])
    /\ warned' = [warned EXCEPT ![c] = finished[item[c]]]
    /\ Obtained(c, Ok(conn[item[c]].v.conn))
    /\ Release(c)
    /\ UNCHANGED <<newVars, conn, finished, connect_ok,
                   op, item, attempts, retries_left>>

\* client.rs 245-256: the guard is acquired and holds None; the factory of
\* the slot's ConnectionCheck is called, the guard stays held
GetConnectionConnect(c) ==
    /\ pc[c] = "lock"
    /\ HoldsGuard(c)
    /\ NeedsConnect(conn[item[c]])
    /\ pc' = [pc EXCEPT ![c] = Factory(client.v.connections[item[c] + 1].connection_check)]
    /\ UNCHANGED <<newVars, slotVars, finished, connect_ok,
                   op, item, attempts, retries_left, held, res, result, warned>>

\* client.rs 257-258: the factory returned a connection; it is stored with
\* its JoinHandle, the guard is dropped and a clone is returned
ConnectOk(c) ==
    /\ pc[c] \in Factories
    /\ LET s == item[c]
           n == connect_ok[s] + 1
       IN /\ conn' = [conn EXCEPT ![s] = Established(s, n)]
          /\ connect_ok' = [connect_ok EXCEPT ![s] = n]
          /\ finished' = [finished EXCEPT ![s] = FALSE]
          /\ Obtained(c, Ok(Handle(s, n)))
    /\ Release(c)
    /\ UNCHANGED <<newVars, op, item, attempts, retries_left, warned>>

\* mutant: the guard is not dropped when the factory fails
ConnectFailsKeepsGuard(c) ==
    /\ pc[c] \in Factories
    /\ \E e \in Failures(attempts[c]) : Obtained(c, Err(e))
    /\ UNCHANGED lock
    /\ UNCHANGED <<newVars, conn, finished, connect_ok,
                   op, item, attempts, retries_left, warned>>

\* client.rs 248/251/254: the factory failed; the ? returns the error, the
\* guard is dropped and the Mutex still holds None
ConnectFails(c) ==
    /\ pc[c] \in Factories
    /\ \E e \in Failures(attempts[c]) : Obtained(c, Err(e))
    /\ Release(c)
    /\ UNCHANGED <<newVars, conn, finished, connect_ok,
                   op, item, attempts, retries_left, warned>>

\* client.rs 125-129: the dispatched call returned; do_invoke returns the
\* connection with the result, or the error
InvokeReturns(c) ==
    /\ pc[c] = "invoking"
    /\ \E r \in {Ok([conn |-> held[c].v, result |-> "TonResult"])}
                 \cup {Err(e) : e \in Failures(attempts[c])} :
          res' = [res EXCEPT ![c] = r]
    /\ pc' = [pc EXCEPT ![c] = "attempt_done"]
    /\ UNCHANGED <<newVars, slotVars, histVars,
                   op, item, attempts, retries_left, held, result, warned>>

\* client.rs 115, RetryIf: a failed attempt is repeated when retry_condition
\* accepts its error and the strategy still yields a wait
ShouldRetry(r, left) == r.tag = "Err" /\ retry_condition(r.e) /\ left > 0

\* client.rs 115-116: RetryIf returns what do_invoke returned
RetryReturns(c) ==
    /\ pc[c] = "attempt_done"
    /\ ~ShouldRetry(res[c], retries_left[c])
    /\ pc' = [pc EXCEPT ![c] = "done"]
    /\ result' = [result EXCEPT ![c] = res[c]]
    /\ UNCHANGED <<newVars, slotVars, histVars,
                   op, item, attempts, retries_left, held, res, warned>>

\* client.rs 115, RetryIf: the next item of the strategy is taken and the
\* caller waits interval_ms
RetrySleeps(c) ==
    /\ pc[c] = "attempt_done"
    /\ ShouldRetry(res[c], retries_left[c])
    /\ pc' = [pc EXCEPT ![c] = "sleep"]
    /\ retries_left' = [retries_left EXCEPT ![c] = @ - 1]
    /\ UNCHANGED <<newVars, slotVars, histVars,
                   op, item, attempts, held, res, result, warned>>

\* client.rs 115, 119-124: the wait is over, do_invoke runs again
RetryAttempt(c) ==
    /\ pc[c] = "sleep"
    /\ attempts' = [attempts EXCEPT ![c] = @ + 1]
    /\ held' = [held EXCEPT ![c] = None]
    /\ warned' = [warned EXCEPT ![c] = FALSE]
    /\ SelectAndLock(c)
    /\ UNCHANGED <<newVars, conn, histVars, op, retries_left, res, result>>

\* the thread behind the JoinHandle stored in slot s ends
JoinHandleFinishes(s) ==
    /\ conn[s].tag = "Some"
    /\ ~finished[s]
    /\ finished' = [finished EXCEPT ![s] = TRUE]
    /\ UNCHANGED <<newVars, slotVars, connect_ok, callVars>>

Next ==
    \/ \E c \in Callers : StartGetConnection(c)
    \/ \E c \in Callers : StartInvoke(c)
    \/ \E c \in Callers : GetConnectionReady(c)
    \/ \E c \in Callers : GetConnectionConnect(c)
    \/ \E c \in Callers : ConnectOk(c)
    \/ \E c \in Callers : ConnectFails(c)
    \/ \E c \in Callers : InvokeReturns(c)
    \/ \E c \in Callers : RetryReturns(c)
    \/ \E c \in Callers : RetrySleeps(c)
    \/ \E c \in Callers : RetryAttempt(c)
    \/ \E s \in Slots : JoinHandleFinishes(s)

Spec == Init /\ [][Next]_vars

\* the steps of a call once it has started: the Mutex hands over the guard
\* (client.rs 235), the factory call returns (client.rs 246-256), the
\* dispatched call returns (client.rs 123), RetryIf goes on (client.rs 115)
CallerStep(c) ==
    \/ GetConnectionReady(c)
    \/ GetConnectionConnect(c)
    \/ ConnectOk(c)
    \/ ConnectFails(c)
    \/ InvokeReturns(c)
    \/ RetryReturns(c)
    \/ RetrySleeps(c)
    \/ RetryAttempt(c)

\* the runtime keeps polling a started call: tokio's Mutex is fair (the head
\* of the queue gets the guard), the timer of the wait fires, and the factory
\* and dispatched calls are assumed to return
Fairness == \A c \in Callers : WF_vars(CallerStep(c))

SpecFair == Init /\ [][Next]_vars /\ Fairness

\* the suspension points of a call: the await of lock() (client.rs 235), of
\* the factory (client.rs 248/251/254), of conn.invoke (client.rs 125) and
\* of the wait between two attempts (client.rs 115)
SuspensionPoints == {"lock", "invoking", "sleep"} \cup Factories

\* where a caller that dropped its call stopped driving it
DroppedAt(p) ==
    IF p = "lock" THEN "dropped_lock"
    ELSE IF p \in Factories THEN "dropped_connect"
    ELSE IF p = "invoking" THEN "dropped_invoke"
    ELSE "dropped_sleep"

DroppedPcs == {DroppedAt(p) : p \in SuspensionPoints}

\* what the Mutex of slot s is left with when c's part of the call is dropped:
\* the pending lock() leaves the wait queue, a MutexGuard is released
WithoutCaller(q, c) == SelectSeq(q, LAMBDA d : d # c)

\* mutant: a dropped call keeps its place in the Mutex
AbandonKeepsGuard(c) ==
    /\ pc[c] \in SuspensionPoints
    /\ pc' = [pc EXCEPT ![c] = DroppedAt(pc[c])]
    /\ UNCHANGED lock
    /\ op' = [op EXCEPT ![c] = "none"]
    /\ item' = [item EXCEPT ![c] = 0]
    /\ attempts' = [attempts EXCEPT ![c] = 0]
    /\ retries_left' = [retries_left EXCEPT ![c] = 0]
    /\ held' = [held EXCEPT ![c] = None]
    /\ res' = [res EXCEPT ![c] = None]
    /\ warned' = [warned EXCEPT ![c] = FALSE]
    /\ UNCHANGED <<newVars, conn, histVars, result>>

\* client.rs 235, 248-254, 125, 115: the caller drops the future of its call
\* at an await; the locals of the call are dropped with it, among them the
\* pending lock() or the MutexGuard (client.rs 235) and the clone of the
\* connection (client.rs 124); the slot is written only at client.rs 257,
\* which a dropped call does not reach
Abandon(c) ==
    /\ pc[c] \in SuspensionPoints
    /\ pc' = [pc EXCEPT ![c] = DroppedAt(pc[c])]
    /\ lock' = [s \in DOMAIN lock |-> WithoutCaller(lock[s], c)]
    /\ op' = [op EXCEPT ![c] = "none"]
    /\ item' = [item EXCEPT ![c] = 0]
    /\ attempts' = [attempts EXCEPT ![c] = 0]
    /\ retries_left' = [retries_left EXCEPT ![c] = 0]
    /\ held' = [held EXCEPT ![c] = None]
    /\ res' = [res EXCEPT ![c] = None]
    /\ warned' = [warned EXCEPT ![c] = FALSE]
    /\ UNCHANGED <<newVars, conn, histVars, result>>

NextAbandon ==
    \/ Next
    \/ \E c \in Callers : Abandon(c)

\* the pool in use by callers that may drop their calls
SpecAbandon == Init /\ [][NextAbandon]_vars

---------------------------------------------------------------------------
(* Properties *)

MaxRetriesOf == client.v.retry_strategy.max_retries
Invoking(c) == op[c] = "invoke_on_connection"
Getting(c) == op[c] = "get_connection"

\* the callers that PoolConnection::get_connection of slot s returned Ok to,
\* and the handle each was given
Holders(s) ==
    {c \in Callers : /\ item[c] = s
                     /\ \/ Getting(c) /\ pc[c] = "done" /\ result[c].tag = "Ok"
                        \/ Invoking(c) /\ held[c].tag = "Some"}
HandleOf(c) == IF Getting(c) THEN result[c].v ELSE held[c].v

\* the factory calls of slot s in flight
InFlight(s) == Cardinality({c \in Callers : pc[c] \in Factories /\ item[c] = s})

\* C1: however many callers ask for a slot, at most one factory call is in
\* flight for it and only while it is empty; once a call succeeded it is the
\* only one that did and no other is made, and every caller that got a handle
\* from the slot got the one stored in the slot.
C1_SingleEstablishment ==
    \A s \in Slots :
        /\ connect_ok[s] + InFlight(s) <= 1
        /\ conn[s].tag = "Some" => connect_ok[s] = 1
        /\ \A c \in Holders(s) :
              conn[s].tag = "Some" /\ HandleOf(c) = conn[s].v.conn

\* two get_connection calls on one slot returned the same handle after a
\* single establishment
C1_Witness ==
    \E s \in Slots :
        /\ connect_ok[s] = 1
        /\ \E c, d \in Holders(s) :
              /\ c # d /\ Getting(c) /\ Getting(d)
              /\ ~warned[c] /\ ~warned[d] /\ result[c] = result[d]

\* the transient failure: a TonlibError with code 500
Transient(r) == r.tag = "Err" /\ r.e.variant = "TonlibError" /\ r.e.code = 500
\* any other failure: a TonlibError with another code, or an error without code
NonTransient(r) == r.tag = "Err" /\ ~(r.e.variant = "TonlibError" /\ r.e.code = 500)

\* C2: an invoke_on_connection call that returned the transient failure ran
\* do_invoke max_retries + 1 times, used up the strategy, and returned the
\* failure of its last do_invoke; no call runs do_invoke more often.
C2_RetryBound ==
    \A c \in Callers :
        Invoking(c) =>
            /\ attempts[c] <= MaxRetriesOf + 1
            /\ (pc[c] = "done" /\ Transient(result[c])) =>
                  /\ attempts[c] = MaxRetriesOf + 1
                  /\ retries_left[c] = 0
                  /\ result[c] = res[c]
                  /\ result[c].e.id = attempts[c]

\* a call with max_retries >= 1 returned the transient failure
C2_Witness ==
    \E c \in Callers :
        /\ Invoking(c) /\ pc[c] = "done" /\ MaxRetriesOf >= 1
        /\ Transient(result[c])
        /\ attempts[c] = MaxRetriesOf + 1

\* C3: a do_invoke that fails with anything but the transient code is the
\* last of its call: the call returns that error and do_invoke does not run
\* again, so a call whose attempt fails this way without an earlier transient
\* failure is attempted exactly once, whatever max_retries is.
C3_NoRetryOfOtherFailures ==
    /\ [](\A c \in Callers :
            (Invoking(c) /\ pc[c] = "done" /\ NonTransient(result[c])) =>
                /\ result[c] = res[c]
                /\ attempts[c] = 1 + (MaxRetriesOf - retries_left[c])
                /\ (retries_left[c] = MaxRetriesOf => attempts[c] = 1))
    /\ [][\A c \in Callers :
            (pc[c] = "attempt_done" /\ NonTransient(res[c]) /\ pc'[c] # pc[c]) =>
                /\ pc'[c] = "done"
                /\ result'[c] = res[c]
                /\ attempts'[c] = attempts[c]]_vars

\* a call with max_retries >= 1 returned a failure without code, or with a
\* code other than 500, after one attempt
C3_Witness ==
    \E c, d \in Callers :
        /\ MaxRetriesOf >= 1
        /\ Invoking(c) /\ pc[c] = "done" /\ NonTransient(result[c])
        /\ maybe_error_code(result[c].e).tag = "Some" /\ attempts[c] = 1
        /\ Invoking(d) /\ pc[d] = "done" /\ NonTransient(result[d])
        /\ maybe_error_code(result[d].e).tag = "None" /\ attempts[d] = 1

\* the checkpoint embedded in a configuration document
CheckpointOf(doc) == from_json(doc).v.init_block

\* patch_init_block returned a configuration
Patched == patch_runs = 1 /\ patched_params.tag = "Some"

\* C4: the checkpoint of the patched configuration has the larger of the
\* embedded and the fetched sequence number: it is the fetched checkpoint when
\* that is strictly newer and the embedded one, unchanged, otherwise; the
\* sequence number never decreases.
C4_CheckpointMonotonic ==
    Patched =>
        LET old == CheckpointOf(params.config)
            new == recent_init_block.v
            got == CheckpointOf(patched_params.v.config)
        IN /\ got.seqno = (IF new.seqno > old.seqno THEN new.seqno ELSE old.seqno)
           /\ new.seqno > old.seqno => got = new
           /\ new.seqno <= old.seqno => got = old
           /\ got.seqno >= old.seqno

\* a refresh that fetched an older checkpoint than the embedded one
C4_Witness ==
    /\ Patched
    /\ recent_init_block.v.seqno < CheckpointOf(params.config).seqno

\* the error patch_init_block returns when no bootstrap node answered
\* (client.rs 198-199)
CheckpointUnavailable == InternalError(MsgInitBlock)

\* C5: when refresh was requested and get_recent_init_block found no
\* checkpoint, TonClient::new has failed with the checkpoint error, returned
\* no pool, built no slot and created no directory.
C5_NoCheckpointNoPool ==
    (params.update_init_block /\ recent_init_block = None) =>
        /\ new_pc = "err"
        /\ new_result = Err(CheckpointUnavailable)
        /\ client = None
        /\ connections = <<>> /\ conn = <<>> /\ lock = <<>>
        /\ fs = fs0

\* a construction with a keystore root and pool_size > 0 whose refresh found
\* no checkpoint
C5_Witness ==
    /\ params.update_init_block /\ recent_init_block = None
    /\ params.keystore_dir.tag = "Some" /\ pool_size > 0
    /\ new_pc = "err"

\* the number a string of decimal digits stands for (-1 when it is none)
DigitValue(ch) == IF \E d \in 0..9 : Digits[d + 1] = ch
                  THEN CHOOSE d \in 0..9 : Digits[d + 1] = ch ELSE -1
RECURSIVE ParseDecimal(_)
ParseDecimal(str) ==
    IF str = <<>> THEN -1
    ELSE IF DigitValue(str[Len(str)]) < 0 THEN -1
    ELSE IF Len(str) = 1 THEN DigitValue(str[1])
    ELSE LET high == ParseDecimal(SubSeq(str, 1, Len(str) - 1)) IN
         IF high < 0 THEN -1 ELSE 10 * high + DigitValue(str[Len(str)])

IsPrefix(pre, str) == Len(pre) <= Len(str) /\ SubSeq(str, 1, Len(pre)) = pre

\* C6: after a successful TonClient::new with keystore root R, slot i has the
\* keystore path R/i (i in decimal), the paths of two slots differ, each is a
\* directory, nothing but R and the slot directories was created, and what
\* existed before is unchanged.
C6_KeystoreIsolation ==
    (new_pc = "ok" /\ params.keystore_dir.tag = "Some") =>
        LET R == TrimSep(params.keystore_dir.v)
            prefix == R \o <<"/">>
            path(i) == connections[i + 1].params.keystore_dir
            SlotPaths == {path(i).v : i \in 0..(pool_size - 1)}
        IN /\ Len(connections) = pool_size
           /\ client = Some(Inner(retry_strategy, connections))
           /\ \A i \in 0..(pool_size - 1) :
                 /\ path(i).tag = "Some"
                 /\ IsPrefix(prefix, path(i).v)
                 /\ ParseDecimal(SubSeq(path(i).v, Len(prefix) + 1, Len(path(i).v))) = i
                 /\ path(i).v \in DOMAIN fs /\ fs[path(i).v].kind = "dir"
           /\ \A i, j \in 0..(pool_size - 1) : i # j => path(i) # path(j)
           /\ \A q \in DOMAIN fs0 : q \in DOMAIN fs /\ fs[q] = fs0[q]
           /\ (DOMAIN fs) \ (DOMAIN fs0) \subseteq SlotPaths \cup {R}

\* a pool with two-digit slot names built where slot 0's directory held key
\* material
C6_Witness ==
    /\ new_pc = "ok" /\ params.keystore_dir.tag = "Some"
    /\ pool_size > 10
    /\ \E q \in DOMAIN fs0 : fs0[q] = KeysDir /\ Some(q) = connections[1].params.keystore_dir

\* C7: a get_connection that finds a connection whose JoinHandle is finished
\* writes a warning, returns the stored handle without error, makes no
\* factory call, and leaves the slot with the same handle and JoinHandle.
C7_DeadConnectionReported ==
    [][\A c \in Callers :
         (/\ pc[c] = "lock" /\ HoldsGuard(c)
          /\ conn[item[c]].tag = "Some" /\ finished[item[c]]
          /\ pc'[c] # pc[c]) =>
            LET s == item[c] IN
            /\ warned'[c]
            /\ conn'[s] = conn[s] /\ finished'[s]
            /\ connect_ok' = connect_ok
            /\ pc'[c] \notin Factories
            /\ Getting(c) => pc'[c] = "done" /\ result'[c] = Ok(conn[s].v.conn)
            /\ Invoking(c) => pc'[c] = "invoking" /\ held'[c] = Some(conn[s].v.conn)]_vars

\* a get_connection call returned the handle of a slot whose JoinHandle was
\* finished, with a warning
C7_Witness ==
    \E c \in Callers :
        /\ Getting(c) /\ pc[c] = "done" /\ warned[c]
        /\ result[c] = Ok(conn[item[c]].v.conn)
        /\ finished[item[c]] /\ connect_ok[item[c]] = 1

\* C8: the pool has at least one slot and every selection is a slot of the
\* pool, for every pool_size TonClient::new accepts.
C8_SelectionInRange ==
    /\ client.tag = "Some" => Len(client.v.connections) > 0
    /\ \A c \in Callers : pc[c] # "idle" => pc[c] # "panicked" /\ item[c] \in Slots

RECURSIVE SumOver(_, _)
SumOver(f, S) == IF S = {} THEN 0
                 ELSE LET x == CHOOSE x \in S : TRUE IN f[x] + SumOver(f, S \ {x})

\* C9: the connections established in the life of the pool are at most one
\* per slot, so at most slot_count in all, and a slot holds a connection
\* exactly when one was established for it.
C9_AtMostSlotCountConnections ==
    /\ \A s \in Slots : connect_ok[s] <= 1 /\ (conn[s].tag = "Some" <=> connect_ok[s] = 1)
    /\ SumOver(connect_ok, Slots) <= Cardinality(Slots)

\* every slot of a two-slot pool is established, and a caller was handed the
\* connection of a slot whose JoinHandle was finished
C9_Witness ==
    /\ Cardinality(Slots) = 2
    /\ \A s \in Slots : connect_ok[s] = 1
    /\ \E c \in Callers : warned[c] /\ pc[c] \in {"done", "invoking"}

\* C10: a factory call that fails, in whichever ConnectionCheck mode, makes
\* get_connection return the error with the guard released and the Mutex
\* still holding None; the lock of a slot only ever holds callers that are
\* inside get_connection of that slot, so the next one re-attempts.
C10_FailedEstablishmentLeavesEmpty ==
    /\ [](\A s \in Slots : \A k \in 1..Len(lock[s]) :
            /\ item[lock[s][k]] = s
            /\ pc[lock[s][k]] \in (IF k = 1 THEN {"lock"} \cup Factories ELSE {"lock"}))
    /\ [][\A c \in Callers :
            (pc[c] \in Factories /\ pc'[c] # pc[c] /\ connect_ok'[item[c]] = connect_ok[item[c]]) =>
                LET s == item[c] IN
                /\ pc[c] = Factory(connection_check)
                /\ conn[s] = None /\ conn'[s] = None
                /\ lock'[s] = Tail(lock[s])
                /\ \A k \in 1..Len(lock'[s]) : lock'[s][k] # c
                /\ Getting(c) => /\ pc'[c] = "done"
                                 /\ result'[c].tag = "Err"
                                 /\ result'[c].e \in Failures(attempts[c])
                /\ Invoking(c) => /\ pc'[c] = "attempt_done"
                                  /\ res'[c].tag = "Err"
                                  /\ res'[c].e \in Failures(attempts[c])]_vars

\* a slot whose first establishment failed was established by a later request
C10_Witness ==
    \E s \in Slots, c \in Callers :
        /\ Getting(c) /\ pc[c] = "done" /\ item[c] = s /\ result[c].tag = "Err"
        /\ connect_ok[s] = 1 /\ lock[s] = <<>>

\* the locals of the call of caller d
CallOf(d) == <<pc[d], op[d], item[d], attempts[d], retries_left[d],
               held[d], res[d], result[d], warned[d]>>

\* C11: a caller that drops its call at a suspension point (waiting for the
\* guard, in the factory call with the guard held, in the dispatched call, in
\* the wait before a retry) changes no slot: each slot holds nothing or the
\* one connection established for it, as before; the caller is left in no
\* Mutex, as waiter or as holder; the calls of the other callers are as they
\* were, and whoever is first in a Mutex is a live caller of that slot.
C11_AbandonLeavesPool ==
    /\ [](\A s \in Slots :
            /\ conn[s] = None \/ conn[s] = Established(s, 1)
            /\ \A k \in 1..Len(lock[s]) :
                  /\ pc[lock[s][k]] \notin DroppedPcs
                  /\ pc[lock[s][k]] \in {"lock"} \cup Factories
                  /\ item[lock[s][k]] = s
            /\ (lock[s] = <<>>) => InFlight(s) = 0)
    /\ [][\A c \in Callers :
            (pc[c] \notin DroppedPcs /\ pc'[c] \in DroppedPcs) =>
                /\ pc[c] \in SuspensionPoints
                /\ conn' = conn /\ finished' = finished /\ connect_ok' = connect_ok
                /\ \A s \in Slots : lock'[s] = WithoutCaller(lock[s], c)
                /\ \A s \in Slots : \A k \in 1..Len(lock'[s]) : lock'[s][k] # c
                /\ \A d \in Callers \ {c} : CallOf(d)' = CallOf(d)]_vars

\* one caller dropped its call in the factory call of the only slot, and the
\* other caller then established that slot and was given its connection
C11_Witness ==
    \E c, d \in Callers :
        /\ Cardinality(Slots) = 1
        /\ pc[c] = "dropped_connect"
        /\ pc[d] = "done" /\ result[d] = Ok(Handle(0, 1))
        /\ conn[0] = Established(0, 1) /\ lock[0] = <<>>

\* the errors TonClient::new returns: those of patch_init_block (client.rs
\* 190-223) and that of fs::create_dir_all (client.rs 77); the path of a slot
\* is joined from a String and decimal digits, so into_string (client.rs
\* 78-80) has no error to return
ConstructionErrors ==
    {InternalError(m) : m \in {MsgParse, MsgInitBlock, MsgBlockId, MsgSerialize}}
        \cup {IoError(k) : k \in {"PermissionDenied", "AlreadyExists"}}

\* C12: TonClient::new that met an error (the configuration does not parse or
\* serialize, no checkpoint was found, the keystore directory of some slot
\* could not be created) has returned that error and no client, and stays
\* so; a client is returned only by a construction that ended Ok, and it has
\* pool_size slots, so no pool with fewer slots is ever seen by a caller.
C12_ErrorAbortsConstruction ==
    /\ [](/\ new_pc = "err" =>
              /\ client = None
              /\ new_result.tag = "Err" /\ new_result.e \in ConstructionErrors
              /\ connections = <<>> /\ conn = <<>> /\ lock = <<>>
          /\ (new_result.tag = "Err" \/ new_pc \in {"start", "slots"}) => client = None
          /\ client.tag = "Some" =>
              /\ new_pc = "ok" /\ new_result = Ok("TonClient")
              /\ Len(client.v.connections) = pool_size
              /\ DOMAIN conn = 0..(pool_size - 1) /\ DOMAIN lock = DOMAIN conn)
    /\ [][new_pc = "err" => (new_pc' = "err" /\ client' = None)]_vars

\* the keystore directory of a slot after the first could not be created: the
\* directory of slot 0 exists, no client was returned
C12_Witness ==
    /\ new_pc = "err" /\ new_result.e.variant = "Io"
    /\ pool_size >= 2 /\ fs # fs0
    /\ PathJoin(params.keystore_dir.v, Format(0)) \in DOMAIN fs
    /\ client = None

\* C16: patch_init_block runs at most once in a TonClient::new, only when
\* update_init_block is set, and before any slot is built or any directory
\* created; a failure is returned and not repeated, whatever the
\* RetryStrategy allows; every slot is built from one configuration, the
\* patched one after a refresh and the caller's own without one.
C16_PatchOnceBeforeSlots ==
    /\ [](/\ patch_runs <= 1
          /\ patch_runs = 1 <=> (params.update_init_block /\ new_pc # "start")
          /\ (~params.update_init_block /\ patched_params.tag = "Some") =>
                patched_params.v = params
          /\ new_pc = "start" => (connections = <<>> /\ fs = fs0)
          /\ \A k \in 1..Len(connections) :
                /\ patched_params.tag = "Some"
                /\ connections[k].params.config = patched_params.v.config
                /\ connections[k].params.update_init_block
                      = patched_params.v.update_init_block)
    /\ [][patch_runs' # patch_runs =>
            /\ patch_runs = 0 /\ patch_runs' = 1
            /\ new_pc = "start" /\ new_pc' \in {"slots", "err"}
            /\ new_pc' = "err" <=> patched_params' = None
            /\ connections = <<>> /\ connections' = <<>>
            /\ fs = fs0 /\ fs' = fs0]_vars
    /\ [][(connections' # connections \/ fs' # fs) =>
            /\ patched_params.tag = "Some" /\ patched_params' = patched_params
            /\ patch_runs' = patch_runs]_vars

\* a refresh patched the configuration under a RetryStrategy that allows
\* retries, and a pool of several slots with keystores was built from it
C16_Witness ==
    /\ new_pc = "ok" /\ params.update_init_block /\ patch_runs = 1
    /\ retry_strategy.max_retries >= 1
    /\ pool_size >= 2 /\ fs # fs0
    /\ patched_params.v.config # params.config
    /\ \A k \in 1..pool_size : connections[k].params.config = patched_params.v.config

\* the callers with a factory call of slot s in flight
Establishing(s) == {c \in Callers : pc[c] \in Factories /\ item[c] = s}

\* C13: in every state each slot has at most one caller in a factory call,
\* that caller holds the guard of the slot and the slot is still empty; a
\* slot that holds something holds a connection together with the JoinHandle
\* of that same connection, never one alone.
C13_OneEstablisherHandleWithWatcher ==
    \A s \in Slots :
        /\ Cardinality(Establishing(s)) <= 1
        /\ \A c \in Establishing(s) :
              /\ lock[s] # <<>> /\ Head(lock[s]) = c
              /\ conn[s] = None
        /\ conn[s].tag \in {"None", "Some"}
        /\ conn[s].tag = "Some" =>
              /\ DOMAIN conn[s].v = {"conn", "join_handle"}
              /\ conn[s].v.join_handle = conn[s].v.conn
              /\ conn[s].v.conn.slot = s

\* one caller is in the factory call of a slot while the other waits for the
\* guard of the same slot
C13_Witness ==
    \E s \in Slots, c, d \in Callers :
        /\ c # d
        /\ Establishing(s) = {c}
        /\ pc[d] = "lock" /\ item[d] = s /\ lock[s] = <<c, d>>

\* the phase of slot s: Ready with a stored connection, Establishing with a
\* factory call in flight, Empty otherwise
SlotState(s) ==
    IF conn[s].tag = "Some" THEN "Ready"
    ELSE IF Establishing(s) # {} THEN "Establishing"
    ELSE "Empty"

\* C14: a slot moves from Empty to Establishing and from there to Ready (or
\* back to Empty when the factory call failed) and in no other way; a Ready
\* slot stays Ready with the handle it has, whatever get_connection and
\* invoke_on_connection calls follow; the guarded field changes only from
\* nothing to a connection, in a step of the caller that holds the guard and
\* whose factory call returned; no slot is Establishing with its guard free.
C14_SlotLifecycle ==
    /\ [](\A s \in Slots : SlotState(s) = "Establishing" => lock[s] # <<>>)
    /\ [][\A s \in Slots :
            /\ <<SlotState(s), SlotState(s)'>> \in
                  {<<"Empty", "Empty">>, <<"Empty", "Establishing">>,
                   <<"Establishing", "Establishing">>, <<"Establishing", "Ready">>,
                   <<"Establishing", "Empty">>, <<"Ready", "Ready">>}
            /\ SlotState(s) = "Ready" => conn'[s] = conn[s]
            /\ conn'[s] # conn[s] =>
                  /\ conn[s] = None /\ conn'[s].tag = "Some"
                  /\ \E c \in Establishing(s) :
                        /\ Head(lock[s]) = c /\ lock'[s] = Tail(lock[s])
                        /\ pc'[c] \notin Factories
                        /\ Establishing(s)' = {}
            /\ SlotState(s)' = "Establishing" /\ SlotState(s) = "Empty" =>
                  \E c \in Callers :
                     /\ Establishing(s)' = {c}
                     /\ pc[c] = "lock" /\ Head(lock[s]) = c /\ lock'[s] = lock[s]]_vars

\* a Ready slot whose JoinHandle is finished was asked again by both callers
\* and still holds its first connection
C14_Witness ==
    \E s \in Slots :
        /\ conn[s] = Established(s, 1) /\ finished[s]
        /\ \A c \in Callers : item[c] = s /\ warned[c] /\ pc[c] \in {"done", "invoking"}

\* the places caller c has in the Mutex of slot s, as holder or as waiter
PlacesIn(s, c) == {k \in 1..Len(lock[s]) : lock[s][k] = c}

\* C15: a caller is in the Mutex of at most one slot, the one it selected, and
\* once; whether it can go on depends on that slot alone: the first caller in
\* a slot's Mutex can take its step, and a factory call can return, whatever
\* is held or in flight on the other slots; a step touches the Mutex of one
\* slot only, the slot of the caller that takes the step.
C15_SlotsIndependent ==
    /\ [](\A c \in Callers :
            /\ \A s \in Slots : PlacesIn(s, c) # {} =>
                  /\ s = item[c]
                  /\ Cardinality(PlacesIn(s, c)) = 1
                  /\ \A t \in Slots \ {s} : PlacesIn(t, c) = {}
            /\ (pc[c] = "lock" /\ PlacesIn(item[c], c) = {1}) =>
                  ENABLED (GetConnectionReady(c) \/ GetConnectionConnect(c))
            /\ pc[c] \in Factories => ENABLED ConnectOk(c))
    /\ [][\A s \in Slots :
            lock'[s] # lock[s] =>
                /\ \A t \in Slots \ {s} : lock'[t] = lock[t]
                /\ \E c \in Callers :
                      /\ pc'[c] # pc[c]
                      /\ \A d \in Callers \ {c} : pc'[d] = pc[d]
                      /\ s \in {item[c], item'[c]}]_vars

\* the first caller is in the factory call of the slot it took the guard of
\* on entry, and the second caller, which came later and selected another
\* slot, has established that one and returned
C15_Witness ==
    /\ Getting(1) /\ pc[1] \in Factories
    /\ Getting(2) /\ pc[2] = "done" /\ item[2] # item[1]
    /\ result[2] = Ok(Handle(item[2], 1))
    /\ lock[item[1]] = <<1>> /\ lock[item[2]] = <<>>

\* C18: in an invoke_on_connection call a failed factory call ends the
\* attempt with its error, as a failed dispatch does; an attempt enters a
\* factory call at most once, from the lock of the slot it selected; a failed
\* attempt is followed by the wait and a new attempt with a new selection
\* when its error has code 500 and the strategy has a wait left, and
\* otherwise the call returns the error; attempts, and so factory calls, are
\* at most max_retries + 1 in one call.
C18_EstablishmentFailureIsAnAttempt ==
    /\ [](\A c \in Callers : (Invoking(c) /\ pc[c] # "idle") =>
            /\ attempts[c] >= 1 /\ attempts[c] <= MaxRetriesOf + 1
            /\ attempts[c] = (IF pc[c] = "sleep" THEN 0 ELSE 1)
                                + (MaxRetriesOf - retries_left[c])
            /\ pc[c] \in Factories => held[c] = None)
    /\ [][\A c \in Callers : (Invoking(c) /\ pc'[c] # pc[c]) =>
            /\ pc'[c] \in Factories => (pc[c] = "lock" /\ attempts'[c] = attempts[c])
            /\ pc'[c] = "lock" => (pc[c] = "sleep" /\ attempts'[c] = attempts[c] + 1)
            /\ pc[c] \in Factories =>
                  /\ pc'[c] \in {"invoking", "attempt_done"}
                  /\ attempts'[c] = attempts[c]
                  /\ pc'[c] = "invoking" <=> connect_ok'[item[c]] = connect_ok[item[c]] + 1
                  /\ pc'[c] = "attempt_done" =>
                        /\ res'[c].tag = "Err" /\ res'[c].e \in Failures(attempts[c])
                        /\ held'[c] = None
            /\ (pc[c] = "attempt_done" /\ res[c].tag = "Err") =>
                  IF Transient(res[c]) /\ retries_left[c] > 0
                  THEN /\ pc'[c] = "sleep"
                       /\ retries_left'[c] = retries_left[c] - 1
                  ELSE /\ pc'[c] = "done"
                       /\ result'[c] = res[c]
            /\ pc[c] = "sleep" =>
                  /\ pc'[c] = "lock" /\ item'[c] \in Slots
                  /\ lock'[item'[c]] = Append(lock[item'[c]], c)]_vars

\* the error an invoke_on_connection call ended with came from a factory
\* call: the call holds no connection
EstablishmentFailed(c) ==
    Invoking(c) /\ pc[c] = "done" /\ result[c].tag = "Err" /\ held[c] = None

\* no slot was ever established, so every attempt of a call that returned the
\* transient failure failed in its factory call, max_retries + 1 times; the
\* other call returned at once with another failure of a factory call
C18_Witness ==
    \E c, d \in Callers :
        /\ MaxRetriesOf >= 1
        /\ \A s \in Slots : connect_ok[s] = 0
        /\ EstablishmentFailed(c) /\ Transient(result[c])
        /\ attempts[c] = MaxRetriesOf + 1
        /\ EstablishmentFailed(d) /\ NonTransient(result[d]) /\ attempts[d] = 1

\* C19: a TonClient::get_connection call makes one selection and one attempt:
\* it never enters the retry loop, never selects again, enters a factory call
\* at most once, and when that call fails it returns the error at once, also
\* an error with code 500 and whatever max_retries is.
C19_GetConnectionNotRetried ==
    /\ [](\A c \in Callers : Getting(c) =>
            /\ attempts[c] = 1 /\ retries_left[c] = 0
            /\ pc[c] \in {"lock", "done", "panicked"} \cup Factories
            /\ res[c] = None /\ held[c] = None)
    /\ [][\A c \in Callers : (Getting(c) /\ pc'[c] # pc[c]) =>
            /\ item'[c] = item[c]
            /\ pc'[c] # "lock"
            /\ pc'[c] \in Factories => pc[c] = "lock"
            /\ pc[c] \in Factories =>
                  /\ pc'[c] = "done"
                  /\ result'[c].tag = "Ok" <=> connect_ok'[item[c]] = connect_ok[item[c]] + 1
                  /\ result'[c].tag = "Err" => result'[c].e \in Failures(1)]_vars

\* with max_retries >= 1, a get_connection call returned the failure with
\* code 500 of its one factory call, and the slot is still empty
C19_Witness ==
    \E c \in Callers :
        /\ MaxRetriesOf >= 1
        /\ Getting(c) /\ pc[c] = "done" /\ result[c] = Err(TonlibError(500, 1))
        /\ conn[item[c]] = None /\ connect_ok[item[c]] = 0

\* C20: a caller is in the Mutex of a slot only inside
\* PoolConnection::get_connection: when the dispatch starts the guard has been
\* released, and it is not held during the dispatch, the wait or after the
\* return; so the first caller in the Mutex of a Ready slot is given the
\* handle whatever calls are in flight on the connection.
C20_GuardReleasedBeforeDispatch ==
    /\ [](\A c \in Callers :
            /\ pc[c] \in {"invoking", "attempt_done", "sleep", "done"} =>
                  \A s \in Slots : PlacesIn(s, c) = {}
            /\ (/\ pc[c] = "lock" /\ PlacesIn(item[c], c) = {1}
                /\ conn[item[c]].tag = "Some") => ENABLED GetConnectionReady(c))
    /\ [][\A c \in Callers : (pc'[c] = "invoking" /\ pc[c] # "invoking") =>
            LET s == item[c] IN
            /\ Head(lock[s]) = c /\ lock'[s] = Tail(lock[s])
            /\ conn'[s].tag = "Some" /\ held'[c] = Some(conn'[s].v.conn)]_vars

\* the dispatch of caller c on a connection
Dispatching(c) == Invoking(c) /\ pc[c] = "invoking" /\ attempts[c] = 1

\* both callers have their first dispatch in flight on the connection of one
\* slot, whose guard is free: the one that came second was given the handle
\* while the dispatch of the other had not returned
C20_Witness ==
    \E s \in Slots :
        /\ \A c \in Callers : Dispatching(c) /\ item[c] = s /\ held[c] = Some(Handle(s, 1))
        /\ conn[s] = Established(s, 1) /\ lock[s] = <<>>

\* C17: with factory calls and dispatched calls that return and a fair
\* Mutex, every get_connection and invoke_on_connection call that was started
\* eventually returns a result or an error.
C17_EveryCallReturns ==
    \A c \in Callers : (pc[c] # "idle") ~> (pc[c] = "done")

\* what does hold: every call started on a pool that has a slot returns; the
\* retry loop ends after at most max_retries + 1 attempts and no caller
\* waits for a guard forever
TerminationInNonEmptyPool ==
    \A c \in Callers : (pc[c] # "idle" /\ Slots # {}) ~> (pc[c] = "done")

=============================================================================
